---- MODULE Spec2Model ----
(***************************************************************************)
(* Model of the crawl-and-reconcile pipeline of app/crawler/kakao_crawler.py *)
(* (KakaoCrawler.run, _crawl_district, _upsert_cafes, _build_cafe_doc) and  *)
(* of the cafes collection of app/core/database.py.                         *)
(*                                                                          *)
(* The store is the sequence of documents of the "cafes" collection in      *)
(* insertion order; a document's position stands for its _id.  A place of   *)
(* the API is reduced to its id and one payload field, place_name; the      *)
(* value Missing stands for a place whose required fields make              *)
(* _build_cafe_doc raise (KeyError on place_name, ValueError on x or y).    *)
(***************************************************************************)
EXTENDS Integers, Sequences, FiniteSets, TLC

VARIABLES
    store,      \* documents of the cafes collection, in insertion order
    clock,      \* last value read from the wall clock
    runs,       \* number of run() calls started
    pc,         \* position of the single worker
    catalog,    \* SEOUL_DISTRICTS: the zone names, in order
    result,     \* the CrawlResult of the current run
    di,         \* index in catalog of the district of the current iteration
    page,       \* loop variable of _crawl_district
    places,     \* places accumulated by _crawl_district
    now,        \* timestamp read at the start of _crawl_district
    cafes,      \* the batch returned by _crawl_district
    ui,         \* index in cafes of the next record of _upsert_cafes
    inserted,   \* local counter of _upsert_cafes
    updated,    \* local counter of _upsert_cafes
    reqlog,     \* history: the requests issued for the current zone, in order
    got,        \* history: the places the successful requests returned, in order
    zlog,       \* history: one entry per zone started in the current run
    applied,    \* history: number of complete applications of one batch
    firstStore, \* history: the store after the first application
    ret,        \* history: what the last application returned
    zfail,      \* history: whether a fetch failed for the current zone
    served,     \* environment: number of places the API has served so far
    pace,       \* history: "none" before the first request of a run, "requested"
                \* after a request, "slept" once a delay has followed it
    peer,       \* the frame of _upsert_cafes of a second, concurrent reconciler
    order       \* history: the upserts of concurrent reconcilers, as applied

vars == <<store, clock, runs, pc, catalog, result, di, page, places, now,
          cafes, ui, inserted, updated, reqlog, got, zlog, applied, firstStore, ret,
          zfail, served, pace, peer, order>>

-----------------------------------------------------------------------------
(* Bounds of the model *)

\* external ids are 1..MaxId
MaxId == 2
\* most places the API serves in one behaviour, over all its pages
MaxServed == 3
\* most zones of a catalog
NumZones == 3
\* most zones crawled in one behaviour, over all its runs
MaxVisits == 3
\* largest wall-clock value
MaxClock == 1
\* most applications of one batch by the reconciler alone
MaxApply == 3
\* MAX_PAGE of the crawler (45 at kakao_crawler.py:25), scaled down
MAX_PAGE == 3

Ids == 1..MaxId
Names == {"a", "b"}
Missing == "MISSING"
ZoneNames == <<"A", "B", "C", "D", "E">>

-----------------------------------------------------------------------------
(* Helpers *)

SeqsUpTo(S, n) == UNION {[1..k -> S] : k \in 0..n}

Last(s) == s[Len(s)]

Min(S) == CHOOSE x \in S : \A y \in S : x <= y

-----------------------------------------------------------------------------
(* The program *)

SEOUL_DISTRICTS(n) == SubSeq(ZoneNames, 1, n)

CrawlResult ==
    [total_fetched |-> 0, inserted |-> 0, updated |-> 0, failed_districts |-> <<>>]

\* _build_cafe_doc: raises when a required field is missing, else the document
BuildRaises(place) == place.place_name = Missing

_build_cafe_doc(place, district_name, t) ==
    [kakao_id   |-> place.id,
     name       |-> place.place_name,
     district   |-> district_name,
     source     |-> "kakao",
     updated_at |-> t]

\* seen[p["id"]] assigned for every place: the last place of an id is kept, at
\* the position of the first
RECURSIVE DedupLoop_keep_last(_, _, _, _)
DedupLoop_keep_last(ps, seen, district_name, t) ==
    IF ps = <<>> THEN [raised |-> FALSE, cafes |-> seen]
    ELSE LET p == Head(ps)
             at == {j \in 1..Len(seen) : seen[j].kakao_id = p.id} IN
         IF BuildRaises(p)
         THEN [raised |-> TRUE, cafes |-> <<>>]
         ELSE DedupLoop_keep_last(
                  Tail(ps),
                  IF at = {}
                  THEN Append(seen, _build_cafe_doc(p, district_name, t))
                  ELSE [seen EXCEPT ![Min(at)] = _build_cafe_doc(p, district_name, t)],
                  district_name, t)

\* the loop of _crawl_district over places: seen is the dict, kept as the
\* sequence of its values in insertion order
RECURSIVE DedupLoop(_, _, _, _)
DedupLoop(ps, seen, district_name, t) ==
    IF ps = <<>> THEN [raised |-> FALSE, cafes |-> seen]
    ELSE LET p == Head(ps) IN
         IF \E j \in 1..Len(seen) : seen[j].kakao_id = p.id
         THEN DedupLoop(Tail(ps), seen, district_name, t)
         ELSE IF BuildRaises(p)
              THEN [raised |-> TRUE, cafes |-> <<>>]
              ELSE DedupLoop(Tail(ps),
                             Append(seen, _build_cafe_doc(p, district_name, t)),
                             district_name, t)

Dedup(ps, district_name, t) == DedupLoop(ps, <<>>, district_name, t)

\* col.update_one({"kakao_id": id}, {"$set": cafe, "$setOnInsert":
\* {"collected_at": now}}, upsert=True): the first matching document is
\* updated; with no match a document is inserted
Matches(st, id) == {i \in 1..Len(st) : st[i].kakao_id = id}

\* a plain insert in the place of the upsert
update_one_insert(st, cafe) ==
    [store |-> Append(st, [kakao_id     |-> cafe.kakao_id,
                           name         |-> cafe.name,
                           district     |-> cafe.district,
                           source       |-> cafe.source,
                           updated_at   |-> cafe.updated_at,
                           collected_at |-> cafe.updated_at]),
     upserted |-> TRUE]

\* collected_at under "$set" as well
update_one_set_collected(st, cafe) ==
    LET m == Matches(st, cafe.kakao_id)
        doc == [kakao_id     |-> cafe.kakao_id,
                name         |-> cafe.name,
                district     |-> cafe.district,
                source       |-> cafe.source,
                updated_at   |-> cafe.updated_at,
                collected_at |-> cafe.updated_at] IN
    IF m = {}
    THEN [store |-> Append(st, doc), upserted |-> TRUE]
    ELSE [store |-> [st EXCEPT ![Min(m)] = doc], upserted |-> FALSE]

\* district under "$setOnInsert": the zone that inserted the document stays
update_one_keep_district(st, cafe) ==
    LET m == Matches(st, cafe.kakao_id) IN
    IF m = {}
    THEN [store |-> Append(st, [kakao_id     |-> cafe.kakao_id,
                                name         |-> cafe.name,
                                district     |-> cafe.district,
                                source       |-> cafe.source,
                                updated_at   |-> cafe.updated_at,
                                collected_at |-> cafe.updated_at]),
          upserted |-> TRUE]
    ELSE [store |-> [st EXCEPT ![Min(m)] =
                        [kakao_id     |-> cafe.kakao_id,
                         name         |-> cafe.name,
                         district     |-> @.district,
                         source       |-> cafe.source,
                         updated_at   |-> cafe.updated_at,
                         collected_at |-> @.collected_at]],
          upserted |-> FALSE]

\* the two timestamps exchanged: updated_at under "$setOnInsert", collected_at
\* under "$set"
update_one_swapped(st, cafe) ==
    LET m == Matches(st, cafe.kakao_id) IN
    IF m = {}
    THEN [store |-> Append(st, [kakao_id     |-> cafe.kakao_id,
                                name         |-> cafe.name,
                                district     |-> cafe.district,
                                source       |-> cafe.source,
                                updated_at   |-> cafe.updated_at,
                                collected_at |-> cafe.updated_at]),
          upserted |-> TRUE]
    ELSE [store |-> [st EXCEPT ![Min(m)] =
                        [kakao_id     |-> cafe.kakao_id,
                         name         |-> cafe.name,
                         district     |-> cafe.district,
                         source       |-> cafe.source,
                         updated_at   |-> @.updated_at,
                         collected_at |-> cafe.updated_at]],
          upserted |-> FALSE]

update_one(st, cafe) ==
    LET m == Matches(st, cafe.kakao_id) IN
    IF m = {}
    THEN [store |-> Append(st, [kakao_id     |-> cafe.kakao_id,
                                name         |-> cafe.name,
                                district     |-> cafe.district,
                                source       |-> cafe.source,
                                updated_at   |-> cafe.updated_at,
                                collected_at |-> cafe.updated_at]),
          upserted |-> TRUE]
    ELSE [store |-> [st EXCEPT ![Min(m)] =
                        [kakao_id     |-> cafe.kakao_id,
                         name         |-> cafe.name,
                         district     |-> cafe.district,
                         source       |-> cafe.source,
                         updated_at   |-> cafe.updated_at,
                         collected_at |-> @.collected_at]],
          upserted |-> FALSE]

\* a record counted as inserted when the write modified nothing
UpsertStep_by_modified(st, cafe, ins, upd) ==
    LET r == update_one(st, cafe)
        fresh == r.upserted \/ r.store = st IN
    [store    |-> r.store,
     inserted |-> IF fresh THEN ins + 1 ELSE ins,
     updated  |-> IF fresh THEN upd ELSE upd + 1]

\* the body of the loop of _upsert_cafes for one record
UpsertStep(st, cafe, ins, upd) ==
    LET r == update_one(st, cafe) IN
    [store    |-> r.store,
     inserted |-> IF r.upserted THEN ins + 1 ELSE ins,
     updated  |-> IF r.upserted THEN upd ELSE upd + 1]

\* _upsert_cafes as a whole, when the store rejects no write
RECURSIVE UpsertLoop(_, _, _, _)
UpsertLoop(st, batch, ins, upd) ==
    IF batch = <<>> THEN [store |-> st, inserted |-> ins, updated |-> upd]
    ELSE LET r == UpsertStep(st, Head(batch), ins, upd) IN
         UpsertLoop(r.store, Tail(batch), r.inserted, r.updated)

_upsert_cafes(st, batch) == UpsertLoop(st, batch, 0, 0)

\* the delay is skipped when the zone has raised
asyncio_sleep_unless_failed(p) ==
    IF zlog # <<>> /\ zlog[Len(zlog)].raised # "none" THEN p ELSE "slept"

\* await asyncio.sleep(self.request_delay), lines 135 and 197: a delay is observed
asyncio_sleep(p) == "slept"

\* a failed fetch reaches the handler of run()
OnFetchError_record(res, name) ==
    [res EXCEPT !.failed_districts = Append(@, name)]

\* the handlers of the page loop, lines 136-141: the failure is logged and the
\* loop left; the summary is not touched
OnFetchError(res, name) == res

\* the handler starts the summary again
OnZoneError_reset(res, name) ==
    [CrawlResult EXCEPT !.failed_districts = Append(res.failed_districts, name)]

\* the handler takes the batch of the zone out of total_fetched again
OnZoneError_uncount(res, name) ==
    [res EXCEPT !.failed_districts = Append(@, name),
                !.total_fetched = IF @ >= Len(cafes) THEN @ - Len(cafes) ELSE 0]

\* the handler puts the zone in front of the list
OnZoneError_prepend(res, name) ==
    [res EXCEPT !.failed_districts = <<name>> \o @]

\* the handler swallows the exception and records nothing
OnZoneError_swallow(res, name) == res

\* the handler of run(), lines 193-195: the zone is recorded, nothing else changes
OnZoneError(res, name) ==
    [res EXCEPT !.failed_districts = Append(@, name)]

\* the places of the pages are counted, not the records of the batch
AddFetched_places(res, batch) ==
    [res EXCEPT !.total_fetched = @ + Len(places)]

\* result.total_fetched += len(cafes)
AddFetched(res, batch) ==
    [res EXCEPT !.total_fetched = @ + Len(batch)]

\* the updated count of the batch is left out of the summary
AddSaved_only_inserted(res, ins, upd) ==
    [res EXCEPT !.inserted = @ + ins]

\* result.inserted += ins; result.updated += upd
AddSaved(res, ins, upd) ==
    [res EXCEPT !.inserted = @ + ins, !.updated = @ + upd]

-----------------------------------------------------------------------------
(* The environment: what the API may answer *)

RawDocs == [id : Ids, place_name : Names \cup {Missing}]

OkResponses(n) ==
    [kind : {"ok"}, docs : SeqsUpTo(RawDocs, n), is_end : BOOLEAN]

FailResponses ==
    [kind : {"http_status", "transport"}, docs : {<<>>}, is_end : {FALSE}]

Responses == OkResponses(MaxServed - served) \cup FailResponses

-----------------------------------------------------------------------------
(* History *)

ZoneEntry(name) ==
    [zone |-> name, collected |-> FALSE, fetched |-> 0, created |-> 0,
     modified |-> 0, wrote |-> <<>>, made |-> <<>>, raised |-> "none",
     reconciled |-> FALSE, distinct |-> 0]

CurZone == catalog[di]

\* the number of distinct ids among the places of some pages
DistinctIds(ps) == Cardinality({ps[i].id : i \in 1..Len(ps)})

Mark(f(_)) == [zlog EXCEPT ![Len(zlog)] = f(@)]

-----------------------------------------------------------------------------
(* Actions of run() *)

\* line 128, for page in range(1, MAX_PAGE + 1): the page after p, or the end
\* of the loop
NextPage_one_more(p) ==
    IF p <= MAX_PAGE
    THEN [page |-> p + 1, pc |-> "fetch"]
    ELSE [page |-> p, pc |-> "collect"]

NextPage(p) ==
    IF p < MAX_PAGE
    THEN [page |-> p + 1, pc |-> "fetch"]
    ELSE [page |-> p, pc |-> "collect"]

\* line 180, for district in SEOUL_DISTRICTS: the district after the i-th, or
\* the end of the loop (lines 199-208)
NextDistrict_abort(i, cat) ==
    IF i < Len(cat) /\ \A k \in 1..Len(result.failed_districts) :
                          result.failed_districts[k] # cat[i]
    THEN [di |-> i + 1, pc |-> "crawl"]
    ELSE [di |-> i, pc |-> "done"]

NextDistrict(i, cat) ==
    IF i < Len(cat)
    THEN [di |-> i + 1, pc |-> "crawl"]
    ELSE [di |-> i, pc |-> "done"]

frameVars == <<page, places, now, cafes, ui, inserted, updated>>
applyVars == <<applied, firstStore, ret>>
concVars == <<peer, order>>

\* run(), lines 176-180: a new summary, the first district
StartRun ==
    /\ pc \in {"idle", "done"}
    /\ (runs + 1) * Len(catalog) <= MaxVisits
    /\ runs' = runs + 1
    /\ result' = CrawlResult
    /\ di' = 1
    /\ pc' = "crawl"
    /\ zlog' = <<>>
    /\ UNCHANGED <<store, clock, catalog, frameVars, reqlog, got, zfail, applyVars, concVars, served>>
    /\ pace' = "none"

\* _crawl_district, lines 123-126: the wall clock is read once
CrawlStart(t) ==
    /\ pc = "crawl"
    /\ t >= clock
    /\ clock' = t
    /\ now' = t
    /\ places' = <<>>
    /\ page' = 1
    /\ pc' = "fetch"
    /\ reqlog' = <<>> /\ got' = <<>>
    /\ zfail' = FALSE
    /\ zlog' = Append(zlog, ZoneEntry(CurZone))
    /\ UNCHANGED <<store, runs, catalog, result, di, cafes, ui, inserted, updated,
                   applyVars, concVars, served>>
    /\ pace' = pace

\* one iteration of the page loop, lines 129-141, up to its sleep
FetchPage(resp) ==
    /\ pc = "fetch"
    /\ reqlog' = Append(reqlog, [page |-> page, kind |-> resp.kind,
                                   is_end |-> resp.is_end])
    /\ got' = got \o resp.docs
    /\ served' = served + Len(resp.docs)
    /\ IF resp.kind = "ok"
       THEN /\ places' = places \o resp.docs
            /\ pc' = IF resp.is_end THEN "collect" ELSE "page_sleep"
            /\ zfail' = zfail
            /\ result' = result
       ELSE /\ places' = places
            /\ pc' = "collect"
            /\ zfail' = TRUE
            /\ result' = OnFetchError(result, CurZone)
    /\ UNCHANGED <<store, clock, runs, catalog, di, page, now, cafes, ui,
                   inserted, updated, zlog, applyVars, concVars>>
    /\ pace' = "requested"

\* line 135 and the next value of range(1, MAX_PAGE + 1)
PageSleep ==
    /\ pc = "page_sleep"
    /\ page' = NextPage(page).page
    /\ pc' = NextPage(page).pc
    /\ UNCHANGED <<store, clock, runs, catalog, result, di, places, now, cafes, ui,
                   inserted, updated, reqlog, got, zlog, zfail, applyVars, concVars, served>>
    /\ pace' = asyncio_sleep(pace)

\* lines 143-150 and 183: deduplicate, build the documents, count them; an
\* exception of _build_cafe_doc reaches the handler of run()
Collect ==
    /\ pc = "collect"
    /\ LET d == Dedup(places, CurZone, now) IN
       IF d.raised
       THEN /\ result' = OnZoneError(result, CurZone)
            /\ cafes' = <<>>
            /\ pc' = "zone_sleep"
            /\ zlog' = Mark(LAMBDA e : [e EXCEPT !.raised = "collector",
                                                  !.distinct = DistinctIds(places)])
       ELSE /\ cafes' = d.cafes
            /\ result' = AddFetched(result, d.cafes)
            /\ pc' = "upsert_open"
            /\ zlog' = Mark(LAMBDA e : [e EXCEPT !.collected = TRUE,
                                                  !.fetched = Len(d.cafes),
                                                  !.distinct = DistinctIds(places)])
    /\ places' = <<>> /\ page' = 0
    /\ reqlog' = <<>> /\ got' = <<>>
    /\ UNCHANGED <<store, clock, runs, catalog, di, now, ui, inserted, updated,
                   zfail, applyVars, concVars, served>>
    /\ pace' = pace

\* lines 154-155: get_cafes_collection() reaches the store and may raise
UpsertOpen(ok) ==
    /\ pc = "upsert_open"
    /\ IF ok
       THEN /\ ui' = 1 /\ inserted' = 0 /\ updated' = 0
            /\ pc' = "upsert"
            /\ UNCHANGED <<result, zlog>>
       ELSE /\ result' = OnZoneError(result, CurZone)
            /\ pc' = "zone_sleep"
            /\ zlog' = Mark(LAMBDA e : [e EXCEPT !.raised = "reconciler"])
            /\ UNCHANGED <<ui, inserted, updated>>
    /\ UNCHANGED <<store, clock, runs, catalog, di, page, places, now, cafes,
                   reqlog, got, zfail, applyVars, concVars, served>>
    /\ pace' = pace

\* lines 157-171 for one record: the write succeeds, or the store rejects it
\* and the exception reaches the handler of run()
UpsertOne(ok) ==
    /\ pc = "upsert"
    /\ ui <= Len(cafes)
    /\ IF ok
       THEN LET r == UpsertStep(store, cafes[ui], inserted, updated) IN
            /\ store' = r.store
            /\ inserted' = r.inserted
            /\ updated' = r.updated
            /\ ui' = ui + 1
            /\ zlog' = Mark(LAMBDA e :
                   [e EXCEPT !.wrote = Append(@, cafes[ui].kakao_id),
                             !.made = IF Len(r.store) > Len(store)
                                      THEN Append(@, cafes[ui].kakao_id) ELSE @,
                             !.created = IF Len(r.store) > Len(store) THEN @ + 1 ELSE @,
                             !.modified = IF Len(r.store) > Len(store) THEN @ ELSE @ + 1])
            /\ UNCHANGED <<result, pc>>
       ELSE /\ result' = OnZoneError(result, CurZone)
            /\ pc' = "zone_sleep"
            /\ zlog' = Mark(LAMBDA e : [e EXCEPT !.raised = "reconciler"])
            /\ UNCHANGED <<store, ui, inserted, updated>>
    /\ UNCHANGED <<clock, runs, catalog, di, page, places, now, cafes, reqlog, got,
                   zfail, applyVars, concVars, served>>
    /\ pace' = pace

\* lines 173 and 186-187: the counts of the batch are folded into the summary
UpsertReturn ==
    /\ pc = "upsert"
    /\ ui > Len(cafes)
    /\ result' = AddSaved(result, inserted, updated)
    /\ pc' = "zone_sleep"
    /\ zlog' = Mark(LAMBDA e : [e EXCEPT !.reconciled = TRUE])
    /\ UNCHANGED <<store, clock, runs, catalog, di, page, places, now, cafes, ui,
                   inserted, updated, reqlog, got, zfail, applyVars, concVars, served>>
    /\ pace' = pace

\* line 197 and the next district of the loop, or lines 199-208
ZoneSleep ==
    /\ pc = "zone_sleep"
    /\ di' = NextDistrict(di, catalog).di
    /\ pc' = NextDistrict(di, catalog).pc
    /\ page' = 0 /\ now' = 0 /\ cafes' = <<>>
    /\ ui' = 0 /\ inserted' = 0 /\ updated' = 0
    /\ zfail' = FALSE
    /\ UNCHANGED <<store, clock, runs, catalog, result, places, reqlog, got, zlog,
                   applyVars, concVars, served>>
    /\ pace' = asyncio_sleep(pace)

-----------------------------------------------------------------------------------------------------------------------------------------------------
(* The crawler, run again and again *)

\* no second reconciler
NoFrame == [cafes |-> <<>>, ui |-> 0, inserted |-> 0, updated |-> 0]

\* no run in progress: the variables of the frames of run() and of the functions
\* it calls hold their initial values
Idle ==
    /\ clock = 0
    /\ runs = 0
    /\ result = CrawlResult
    /\ di = 0
    /\ page = 0
    /\ places = <<>>
    /\ now = 0
    /\ ui = 0
    /\ inserted = 0
    /\ updated = 0
    /\ reqlog = <<>>
    /\ got = <<>>
    /\ zlog = <<>>
    /\ applied = 0
    /\ ret = <<0, 0>>
    /\ served = 0
    /\ zfail = FALSE
    /\ pace = "none"
    /\ order = <<>>

Init ==
    /\ Idle
    /\ pc = "idle"
    /\ store = <<>>
    /\ firstStore = <<>>
    /\ cafes = <<>>
    /\ catalog \in {SEOUL_DISTRICTS(n) : n \in 1..NumZones}
    /\ peer = NoFrame

\* the wall clock does not step backwards between two reads
Reads == {t \in 0..MaxClock : t <= clock + 1}

Next ==
    \/ StartRun
    \/ \E t \in Reads : CrawlStart(t)
    \/ \E resp \in Responses : FetchPage(resp)
    \/ PageSleep
    \/ Collect
    \/ \E ok \in BOOLEAN : UpsertOpen(ok)
    \/ \E ok \in BOOLEAN : UpsertOne(ok)
    \/ UpsertReturn
    \/ ZoneSleep

Spec == Init /\ [][Next]_vars

-----------------------------------------------------------------------------
(* The reconciler alone: one batch, applied again and again to one store *)

Times == 0..MaxClock

Rows ==
    {r \in [kakao_id : Ids, name : Names, district : {"A", "B"}, source : {"kakao"},
            updated_at : Times, collected_at : Times] :
        r.collected_at <= r.updated_at}

\* the stores a sequence of runs leaves: one document per id
Stores ==
    {st \in SeqsUpTo(Rows, MaxId) :
        \A i, j \in 1..Len(st) : i # j => st[i].kakao_id # st[j].kakao_id}

\* the batches _crawl_district returns: distinct ids, one district, one timestamp
Batches ==
    {b \in SeqsUpTo([kakao_id : Ids, name : Names, district : {"A", "B"},
                     source : {"kakao"}, updated_at : Times], MaxId) :
        /\ \A i, j \in 1..Len(b) : i # j => b[i].kakao_id # b[j].kakao_id
        /\ \A i, j \in 1..Len(b) : b[i].district = b[j].district
                                   /\ b[i].updated_at = b[j].updated_at}

InitUpsert ==
    /\ Idle
    /\ pc = "apply"
    /\ store \in Stores
    /\ firstStore = <<>>
    /\ cafes \in Batches
    /\ catalog = SEOUL_DISTRICTS(2)
    /\ peer = NoFrame

\* ins, upd = self._upsert_cafes(cafes), with no error of the store
Apply ==
    /\ pc = "apply"
    /\ applied < MaxApply
    /\ LET r == _upsert_cafes(store, cafes) IN
       /\ store' = r.store
       /\ ret' = <<r.inserted, r.updated>>
       /\ firstStore' = IF applied = 0 THEN r.store ELSE firstStore
    /\ applied' = applied + 1
    /\ UNCHANGED <<clock, runs, pc, catalog, result, di, page, places, now, cafes,
                   ui, inserted, updated, reqlog, got, zlog, zfail, served, pace,
                   concVars>>

NextUpsert == Apply

SpecUpsert == InitUpsert /\ [][NextUpsert]_vars

-----------------------------------------------------------------------------
(* What the history says of the current run *)

SumOf(zl, f(_)) ==
    LET S[k \in 0..Len(zl)] == IF k = 0 THEN 0 ELSE S[k - 1] + f(zl[k])
    IN  S[Len(zl)]

NamesOf(zl, keep(_)) ==
    LET N[k \in 0..Len(zl)] ==
            IF k = 0 THEN <<>>
            ELSE N[k - 1] \o (IF keep(zl[k]) THEN <<zl[k].zone>> ELSE <<>>)
    IN  N[Len(zl)]

Raised(e) == e.raised # "none"

InSeq(x, s) == \E i \in 1..Len(s) : s[i] = x

\* the zones whose reconciler wrote a document for id in this run, in order
Writers(id) == NamesOf(zlog, LAMBDA e : InSeq(id, e.wrote))

KeyUnique(st) ==
    \A i, j \in 1..Len(st) : i # j => st[i].kakao_id # st[j].kakao_id

\* the document stored for a record: the record and its first-seen timestamp
Holds(st, cafe) ==
    \E i \in 1..Len(st) :
        /\ st[i].kakao_id = cafe.kakao_id
        /\ st[i].name = cafe.name
        /\ st[i].district = cafe.district
        /\ st[i].source = cafe.source
        /\ st[i].updated_at = cafe.updated_at

-----------------------------------------------------------------------------
(* Claims *)

\* C1: applying _upsert_cafes to one batch of distinct ids again leaves the
\* store as the first application left it, and every application after the
\* first returns (0, size of the batch).
C1_Idempotent ==
    applied >= 2 => /\ store = firstStore
                    /\ ret = <<0, Len(cafes)>>

\* a batch with a new id and a stored id, applied three times
C1_Witness ==
    /\ pc = "apply"
    /\ applied = 3
    /\ Len(cafes) = 2
    /\ Len(store) = 2
    /\ firstStore = store
    /\ \E i \in 1..2 : store[i].collected_at < store[i].updated_at
    /\ \E i \in 1..2 : store[i].collected_at = cafes[1].updated_at

\* C2: whatever the pages, the fetch failures and the store errors, the store
\* never holds two documents with one kakao_id.
C2_KeyUnique == KeyUnique(store)

\* two documents, one of them written again by a later batch
C2_Witness ==
    /\ Len(store) = 2
    /\ \E i \in 1..2 : store[i].collected_at < store[i].updated_at
    /\ \E e \in {zlog[k] : k \in 1..Len(zlog)} : e.modified >= 1

\* C3: a later upsert of a stored id leaves collected_at as first written and
\* sets updated_at to the timestamp of the batch being upserted; no step
\* changes the collected_at of a stored document.
C3_FirstSeenImmutable ==
    [][\A i \in 1..Len(store) :
          /\ i <= Len(store')
          /\ store'[i].kakao_id = store[i].kakao_id
          /\ store'[i].collected_at = store[i].collected_at
          /\ (pc = "upsert" /\ ui' = ui + 1 /\ cafes[ui].kakao_id = store[i].kakao_id)
                => store'[i].updated_at = now]_vars

\* a document first seen at T1 has just been upserted by a batch of T2 > T1
C3_Witness ==
    /\ pc = "upsert"
    /\ ui > 1
    /\ \E i \in 1..Len(store) :
          /\ store[i].kakao_id = cafes[ui - 1].kakao_id
          /\ store[i].collected_at < now
          /\ store[i].updated_at = now

C5_FailureIsolation ==
    /\ result.failed_districts = NamesOf(zlog, Raised)
    /\ result.total_fetched = SumOf(zlog, LAMBDA e : IF e.collected THEN e.fetched ELSE 0)
    /\ result.inserted = SumOf(zlog, LAMBDA e : IF e.reconciled THEN e.created ELSE 0)
    /\ result.updated = SumOf(zlog, LAMBDA e : IF e.reconciled THEN e.modified ELSE 0)
    /\ pc \in {"zone_sleep", "done"} =>
          \A k \in 1..Len(zlog) :
              ~Raised(zlog[k]) => /\ zlog[k].collected /\ zlog[k].reconciled
                                  /\ zlog[k].created + zlog[k].modified = zlog[k].fetched
    /\ pc = "done" => NamesOf(zlog, LAMBDA e : TRUE) = catalog

\* three zones: the second raised, the first and the third wrote documents
C5_Witness ==
    /\ pc = "done"
    /\ Len(catalog) = 3
    /\ result.failed_districts = <<"B">>
    /\ zlog[1].created = 1
    /\ zlog[3].created = 1 /\ zlog[3].modified = 1
    /\ result.total_fetched >= 3
    /\ result.inserted = 2 /\ result.updated = 1

\* the records of a batch, deduplicated: one per id of the places, built from
\* the first place with that id, in the order of the first places
FirstAt(ps, id) == Min({i \in 1..Len(ps) : ps[i].id = id})

IsDedupOf(out, ps, zone, t) ==
    /\ \A i \in 1..Len(ps) :
          Cardinality({j \in 1..Len(out) : out[j].kakao_id = ps[i].id}) = 1
    /\ \A j \in 1..Len(out) :
          /\ \E i \in 1..Len(ps) : ps[i].id = out[j].kakao_id
          /\ out[j].name = ps[FirstAt(ps, out[j].kakao_id)].place_name
          /\ out[j].district = zone
          /\ out[j].source = "kakao"
          /\ out[j].updated_at = t
    /\ \A j, k \in 1..Len(out) :
          j < k => FirstAt(ps, out[j].kakao_id) < FirstAt(ps, out[k].kakao_id)

\* C6: when the fetch of page k fails, no further page of the zone is
\* requested, the batch is the deduplicated records of the pages before k, the
\* failure itself records nothing in failed_districts, and unless the collector
\* or the reconciler raises the batch is reconciled and the zone not failed.
C6_EarlyTermination ==
    /\ [][/\ zfail => Len(reqlog') <= Len(reqlog)
          /\ (~zfail /\ zfail') =>
                /\ pc' = "collect"
                /\ Len(reqlog') = page
                /\ \A k \in 1..Len(reqlog') : reqlog'[k].page = k
                /\ places' = places /\ places = got
                /\ result' = result
          /\ (zfail /\ pc = "collect" /\ pc' = "upsert_open") =>
                IsDedupOf(cafes', got, CurZone, now)]_vars
    /\ [](zfail /\ pc = "zone_sleep" /\ ~Raised(Last(zlog)) =>
             /\ ~InSeq(CurZone, result.failed_districts)
             /\ Last(zlog).reconciled
             /\ Last(zlog).fetched = Len(cafes)
             /\ \A j \in 1..Len(cafes) : Holds(store, cafes[j]))

\* a fetch failed after pages with two distinct places; the batch of two
\* records built from them is in the store and the zone is not failed
C6_Witness ==
    /\ zfail /\ pc = "zone_sleep"
    /\ Len(cafes) = 2
    /\ Last(zlog).reconciled
    /\ Last(zlog).created = 2
    /\ result.failed_districts = <<>>

-----------------------------------------------------------------------------
(* The end-to-end scenario: a catalog of two zones and an empty store; the
   first page of zone A holds three places with distinct ids and the end flag,
   the first request of zone B ends in a transport error; the store rejects
   nothing *)

ScenarioPages ==
    {ds \in [1..3 -> [id : 1..3, place_name : Names]] :
        \A i, j \in 1..3 : i # j => ds[i].id # ds[j].id}

ScenarioResponses ==
    IF pc # "fetch" THEN {}
    ELSE IF CurZone = "A"
    THEN [kind : {"ok"}, docs : ScenarioPages, is_end : {TRUE}]
    ELSE [kind : {"transport"}, docs : {<<>>}, is_end : {FALSE}]

InitScenario ==
    /\ Idle
    /\ pc = "idle"
    /\ store = <<>>
    /\ firstStore = <<>>
    /\ cafes = <<>>
    /\ catalog = SEOUL_DISTRICTS(2)
    /\ peer = NoFrame

NextScenario ==
    \/ StartRun
    \/ \E t \in Reads : CrawlStart(t)
    \/ \E resp \in ScenarioResponses : FetchPage(resp)
    \/ Collect
    \/ UpsertOpen(TRUE)
    \/ UpsertOne(TRUE)
    \/ UpsertReturn
    \/ ZoneSleep

SpecScenario == InitScenario /\ [][NextScenario]_vars

\* C7, as claimed: the summary of the scenario's run is total_fetched = 3,
\* inserted = 3, updated = 0, failed_zones = ["B"].
C7_AsClaimed ==
    (pc = "done" /\ runs = 1) =>
        result = [total_fetched |-> 3, inserted |-> 3, updated |-> 0,
                  failed_districts |-> <<"B">>]

\* C7, amended: the summary of the scenario's run is total_fetched = 3,
\* inserted = 3, updated = 0 and failed_zones is empty: the transport error of
\* zone B ends its pagination with an empty batch, which is reconciled.
C7_Scenario ==
    (pc = "done" /\ runs = 1) =>
        result = [total_fetched |-> 3, inserted |-> 3, updated |-> 0,
                  failed_districts |-> <<>>]

\* the scenario's run has returned: three documents of zone A in the store,
\* zone B visited, its request failed, its empty batch reconciled
C7_Witness ==
    /\ pc = "done" /\ runs = 1
    /\ Len(store) = 3
    /\ \A i \in 1..3 : store[i].district = "A"
    /\ Len(zlog) = 2
    /\ zlog[2].zone = "B" /\ zlog[2].reconciled /\ zlog[2].fetched = 0

C9_DedupCorrect ==
    [][pc = "collect" =>
          /\ pc' = "upsert_open" => IsDedupOf(cafes', places, CurZone, now)
          /\ pc' = "zone_sleep" <=>
                \E i \in 1..Len(places) :
                    /\ places[i].place_name = Missing
                    /\ FirstAt(places, places[i].id) = i]_vars

\* the first zone of the first run was served three places, one of them a
\* duplicate: its batch holds two records, in the order the ids first came
C9_Witness ==
    /\ pc = "upsert_open"
    /\ runs = 1 /\ Len(zlog) = 1
    /\ served = 3
    /\ Len(cafes) = 2
    /\ cafes[1].kakao_id = 2 /\ cafes[1].name = "a"
    /\ cafes[2].kakao_id = 1
    /\ zlog[Len(zlog)].fetched = 2

AllRaised == \A k \in 1..Len(zlog) : Raised(zlog[k])

\* C10, as claimed: when every zone fails the summary has total_fetched = 0,
\* inserted = 0, updated = 0 and lists every zone as failed.
C10_AsClaimed ==
    (pc = "done" /\ AllRaised) =>
        result = [total_fetched |-> 0, inserted |-> 0, updated |-> 0,
                  failed_districts |-> catalog]

\* C10, amended: when every zone fails the run still returns a summary with
\* inserted = 0, updated = 0 and every zone listed as failed; total_fetched is
\* the sum of the sizes of the batches whose reconciler raised, and 0 when
\* every failure is the collector's.
C10_AllFailed ==
    (pc = "done" /\ AllRaised) =>
        /\ result.inserted = 0
        /\ result.updated = 0
        /\ result.failed_districts = catalog
        /\ result.total_fetched =
              SumOf(zlog, LAMBDA e : IF e.raised = "reconciler" THEN e.fetched ELSE 0)
        /\ (\A k \in 1..Len(zlog) : zlog[k].raised = "collector") =>
              result.total_fetched = 0

\* every zone of a catalog of two failed: the collector of one, the
\* reconciler of the other after a document of its batch was written
C10_Witness ==
    /\ pc = "done" /\ AllRaised
    /\ Len(catalog) = 2
    /\ zlog[1].raised = "collector"
    /\ zlog[2].raised = "reconciler" /\ zlog[2].fetched = 2 /\ zlog[2].created = 1
    /\ result.total_fetched = 2

-----------------------------------------------------------------------------
(* A run that is not starved *)

\* a step of a run that has started: every await of run() completes (a request
\* returns or fails within its timeout, a sleep ends) and every call returns or
\* raises; only the start of a run is left to the caller
RunStep ==
    \/ \E t \in Reads : CrawlStart(t)
    \/ \E resp \in Responses : FetchPage(resp)
    \/ PageSleep
    \/ Collect
    \/ \E ok \in BOOLEAN : UpsertOpen(ok)
    \/ \E ok \in BOOLEAN : UpsertOne(ok)
    \/ UpsertReturn
    \/ ZoneSleep

SpecLive == Init /\ [][Next]_vars /\ WF_vars(RunStep)

Running == pc \notin {"idle", "done"}

\* C11: whatever the pages, the fetch failures and the store errors, a run
\* that has started returns its summary; the zones are visited one by one in
\* the order of the catalog, each once, and the summary is returned when every
\* zone of the catalog has been visited.
C11_RunReturns ==
    /\ Running ~> (pc = "done")
    /\ [](Running \/ pc = "done" =>
             /\ Len(zlog) <= Len(catalog)
             /\ \A k \in 1..Len(zlog) : zlog[k].zone = catalog[k])
    /\ [](pc = "done" =>
             /\ Len(zlog) = Len(catalog)
             /\ result.total_fetched \in Nat
             /\ result.inserted \in Nat
             /\ result.updated \in Nat)

\* a run over three zones has returned: the collector of the first raised, the
\* store rejected the record of the second, the third was reconciled
C11_Witness ==
    /\ pc = "done"
    /\ Len(catalog) = 3
    /\ zlog[1].raised = "collector"
    /\ zlog[2].raised = "reconciler" /\ zlog[2].fetched = 1
    /\ zlog[3].reconciled /\ zlog[3].created = 1

-----------------------------------------------------------------------------
(* The classification of the reconciler: the reconciler alone on any store and
   batch, and the second run of the end-to-end scenario, where the store holds
   three documents of zone A and the page of zone A holds the same three ids
   and one more; the request of zone B fails as before *)

\* the store the first run of the scenario leaves
RerunStores ==
    [1..3 -> [kakao_id : 1..3, name : Names, district : {"A"}, source : {"kakao"},
              updated_at : {0}, collected_at : {0}]]

RerunPages ==
    {ds \in [1..4 -> [id : 1..4, place_name : Names]] :
        \A i, j \in 1..4 : i # j => ds[i].id # ds[j].id}

RerunResponses ==
    IF pc # "fetch" THEN {}
    ELSE IF CurZone = "A"
    THEN [kind : {"ok"}, docs : RerunPages, is_end : {TRUE}]
    ELSE [kind : {"transport"}, docs : {<<>>}, is_end : {FALSE}]

InitRerun ==
    /\ Idle
    /\ pc = "idle"
    /\ store \in {st \in RerunStores : \A i \in 1..3 : st[i].kakao_id = i}
    /\ firstStore = <<>>
    /\ cafes = <<>>
    /\ catalog = SEOUL_DISTRICTS(2)
    /\ peer = NoFrame

InitClassify == InitUpsert \/ InitRerun

NextClassify ==
    \/ Apply
    \/ StartRun
    \/ \E t \in Reads : CrawlStart(t)
    \/ \E resp \in RerunResponses : FetchPage(resp)
    \/ Collect
    \/ UpsertOpen(TRUE)
    \/ UpsertOne(TRUE)
    \/ UpsertReturn
    \/ ZoneSleep

SpecClassify == InitClassify /\ [][NextClassify]_vars

\* the records of a batch that have, or have not, a document in a store
Known(st, batch) == {i \in 1..Len(batch) : Matches(st, batch[i].kakao_id) # {}}
Unknown(st, batch) == {i \in 1..Len(batch) : Matches(st, batch[i].kakao_id) = {}}

\* C12: for any store and any batch of distinct ids the reconciler returns as
\* inserted the number of records of the batch with no document in the store
\* before the call and as updated the number of those with one; a run whose
\* one productive zone returns three stored records and a new one reports
\* total_fetched = 4, inserted = 1, updated = 3.
C12_Classification ==
    /\ [][pc = "apply" =>
            ret' = <<Cardinality(Unknown(store, cafes)),
                     Cardinality(Known(store, cafes))>>]_vars
    /\ [](pc = "done" /\ runs = 1 =>
            /\ result.total_fetched = 4
            /\ result.inserted = 1
            /\ result.updated = 3)

\* the run has returned: the new id came first in the page of zone A, the three
\* stored ids after it, and the store holds four documents
C12_Witness ==
    /\ pc = "done" /\ runs = 1
    /\ Len(store) = 4
    /\ zlog[1].wrote = <<4, 3, 2, 1>>
    /\ zlog[1].made = <<4>>
    /\ zlog[2].reconciled /\ zlog[2].fetched = 0

\* a step that sends a request to the API
Requests == Len(reqlog') = Len(reqlog) + 1

\* C13: a request is the first of its run or follows a delay observed since
\* the request before it, whether that one returned a page, the end flag or a
\* failure, and whether or not its zone was recorded as failed.
C13_Pacing ==
    [][Requests =>
          /\ pace \in {"none", "slept"}
          /\ pace = "none" => (di = 1 /\ page = 1 /\ Len(zlog) = 1)]_vars

\* the collector of the first zone raised, and the second request of the
\* second zone has been sent after a first that returned an empty page
C13_Witness ==
    /\ di = 2 /\ Len(reqlog) = 2 /\ pace = "requested"
    /\ zlog[1].raised = "collector"
    /\ reqlog[1].kind = "ok" /\ got = <<>>

-----------------------------------------------------------------------------
(* Two reconcilers at once: two crawlers share the store, each runs the loop
   of _upsert_cafes over its own batch, and the store applies one update_one
   at a time *)

InitRace ==
    /\ clock = 0 /\ runs = 0 /\ result = CrawlResult
    /\ di = 0 /\ page = 0 /\ places = <<>> /\ now = 0
    /\ reqlog = <<>> /\ got = <<>> /\ zlog = <<>>
    /\ applied = 0 /\ ret = <<0, 0>> /\ firstStore = <<>>
    /\ served = 0 /\ zfail = FALSE /\ pace = "none"
    /\ catalog = SEOUL_DISTRICTS(2)
    /\ pc = "race"
    /\ store \in {st \in Stores : Len(st) <= 1}
    /\ cafes \in {b \in Batches : b # <<>> /\ b[1].district = "A"}
    /\ ui = 1 /\ inserted = 0 /\ updated = 0
    /\ peer \in [cafes : {b \in Batches : b # <<>> /\ b[1].district = "B"},
                 ui : {1}, inserted : {0}, updated : {0}]
    /\ order = <<>>

\* what the store did with one upsert
Applied(who, cafe, r, ins) ==
    [who |-> who, cafe |-> cafe, had |-> Matches(store, cafe.kakao_id) # {},
     ins |-> r.inserted - ins]

\* lines 157-171 for one record of the first reconciler
RaceOwn ==
    /\ pc = "race"
    /\ ui <= Len(cafes)
    /\ LET r == UpsertStep(store, cafes[ui], inserted, updated) IN
       /\ store' = r.store
       /\ inserted' = r.inserted
       /\ updated' = r.updated
       /\ order' = Append(order, Applied("own", cafes[ui], r, inserted))
    /\ ui' = ui + 1
    /\ UNCHANGED <<clock, runs, pc, catalog, result, di, page, places, now, cafes,
                   reqlog, got, zlog, zfail, served, pace, applyVars, peer>>

\* lines 157-171 for one record of the second reconciler
RacePeer ==
    /\ pc = "race"
    /\ peer.ui <= Len(peer.cafes)
    /\ LET r == UpsertStep(store, peer.cafes[peer.ui], peer.inserted, peer.updated) IN
       /\ store' = r.store
       /\ peer' = [peer EXCEPT !.inserted = r.inserted, !.updated = r.updated,
                               !.ui = @ + 1]
       /\ order' = Append(order, Applied("peer", peer.cafes[peer.ui], r, peer.inserted))
    /\ UNCHANGED <<clock, runs, pc, catalog, result, di, page, places, now, cafes,
                   ui, inserted, updated, reqlog, got, zlog, zfail, served, pace,
                   applyVars>>

NextRace == RaceOwn \/ RacePeer

SpecRace == InitRace /\ [][NextRace]_vars

\* the upserts applied so far for an id, by position in the order of the store
Upserts(id) == {k \in 1..Len(order) : order[k].cafe.kakao_id = id}

Max(S) == CHOOSE x \in S : \A y \in S : y <= x

-----------------------------------------------------------------------------
(* Pagination, the frame of an upsert, the summary *)

\* C15: the pages requested for a zone are 1, 2, ..., k in this order, without
\* gap or repetition, k is at most MAX_PAGE, and no page is requested after a
\* page that carried the end flag or after a page whose request failed.
C15_Pagination ==
    /\ Len(reqlog) <= MAX_PAGE
    /\ \A i \in 1..Len(reqlog) : reqlog[i].page = i
    /\ \A i \in 1..Len(reqlog) - 1 : reqlog[i].kind = "ok" /\ ~reqlog[i].is_end
    /\ pc = "fetch" => page = Len(reqlog) + 1
    /\ pc = "page_sleep" => /\ page = Len(reqlog)
                            /\ reqlog[page].kind = "ok" /\ ~reqlog[page].is_end

\* the page loop of the second zone has ended after MAX_PAGE requests, none
\* with the end flag
C15_Witness ==
    /\ pc = "collect"
    /\ Len(reqlog) = MAX_PAGE
    /\ reqlog[MAX_PAGE].kind = "ok" /\ ~reqlog[MAX_PAGE].is_end
    /\ di = 2

\* a step that writes the record cafes[ui] to the store
Writes == pc = "upsert" /\ ui' = ui + 1

StoredIds(st) == {st[i].kakao_id : i \in 1..Len(st)}

\* C16: the upsert of a record leaves every document with another id as it
\* was, removes no document, so that the set of stored ids only grows, and
\* makes the document of the record's id equal to the record on every field
\* but first_seen_at; no other step touches the store.
C16_UpsertFrame ==
    [][/\ StoredIds(store) \subseteq StoredIds(store')
       /\ \A id \in StoredIds(store) :
             (~Writes \/ cafes[ui].kakao_id # id) =>
                 {store'[i] : i \in Matches(store', id)} =
                 {store[i] : i \in Matches(store, id)}
       /\ Writes =>
             /\ StoredIds(store') = StoredIds(store) \cup {cafes[ui].kakao_id}
             /\ \A i \in Matches(store', cafes[ui].kakao_id) :
                   /\ store'[i].name = cafes[ui].name
                   /\ store'[i].district = cafes[ui].district
                   /\ store'[i].source = cafes[ui].source
                   /\ store'[i].updated_at = cafes[ui].updated_at
       /\ ~Writes => store' = store]_vars

\* the second zone has rewritten the document of one id; the document of the
\* other id is as the first zone wrote it
C16_Witness ==
    /\ pc = "upsert" /\ di = 2 /\ ui = 2
    /\ Len(store) = 2
    /\ zlog[2].wrote = <<cafes[1].kakao_id>> /\ zlog[2].made = <<>>
    /\ \E i, j \in 1..2 :
          /\ store[i].kakao_id = cafes[1].kakao_id
          /\ store[i].district = "B" /\ store[i].updated_at = 1
          /\ store[i].collected_at = 0
          /\ store[j].kakao_id # cafes[1].kakao_id
          /\ store[j].district = "A" /\ store[j].updated_at = 0

\* the position of a zone in the catalog
PosOf(name) == CHOOSE k \in 1..Len(catalog) : catalog[k] = name

\* C17: when a run returns, failed_zones lists a zone if and only if its
\* collector or its reconciler raised an exception that reached run(), lists
\* it once, and lists the zones in the order of the catalog.
C17_FailedZones ==
    LET failed == result.failed_districts IN
    /\ \A k \in 1..Len(zlog) : InSeq(zlog[k].zone, failed) <=> Raised(zlog[k])
    /\ \A i \in 1..Len(failed) : \E k \in 1..Len(zlog) : zlog[k].zone = failed[i]
    /\ \A i, j \in 1..Len(failed) : i < j => PosOf(failed[i]) < PosOf(failed[j])
    /\ pc = "done" => \A k \in 1..Len(catalog) :
                          InSeq(catalog[k], failed) <=> Raised(zlog[k])

\* a run over three zones has returned: the collector of the first and the
\* reconciler of the third raised, the second was reconciled
C17_Witness ==
    /\ pc = "done"
    /\ Len(catalog) = 3
    /\ result.failed_districts = <<"A", "C">>
    /\ zlog[1].raised = "collector"
    /\ zlog[2].reconciled /\ zlog[2].fetched = 1
    /\ zlog[3].raised = "reconciler" /\ zlog[3].fetched = 1

\* C18, as claimed: at every point of a run inserted + updated is at most
\* total_fetched, and equal to it whenever failed_zones is empty.
C18_AsClaimed ==
    /\ result.inserted + result.updated <= result.total_fetched
    /\ result.failed_districts = <<>> =>
          result.inserted + result.updated = result.total_fetched

\* C18, amended: at every point of a run inserted + updated is at most
\* total_fetched; it is equal to it whenever failed_zones is empty and no batch
\* is between being counted and being reconciled, so in every returned summary
\* with no failed zone.
C18_CountRelation ==
    /\ result.inserted + result.updated <= result.total_fetched
    /\ (result.failed_districts = <<>> /\ pc \notin {"upsert_open", "upsert"}) =>
          result.inserted + result.updated = result.total_fetched
    /\ pc \in {"upsert_open", "upsert"} =>
          result.inserted + result.updated + Len(cafes) <= result.total_fetched

\* a returned summary with no failed zone: three fetched, two inserted, one
\* updated
C18_Witness ==
    /\ pc = "done"
    /\ result.failed_districts = <<>>
    /\ result.total_fetched = 3
    /\ result.inserted = 2 /\ result.updated = 1

\* a step in which the store rejects the write of the record cafes[ui]
Rejects ==
    /\ pc = "upsert" /\ ui <= Len(cafes)
    /\ pc' = "zone_sleep"
    /\ zlog'[Len(zlog')].raised = "reconciler"

\* C19: when the store rejects the write of the j-th record of a batch, the
\* j-1 records before it stay written, no later record of the batch is
\* written, the zone is appended to failed_zones, total_fetched holds the size
\* of the batch already and keeps it, and the counts of the zone are not added
\* to the summary; so the inserted of a summary is at most the number of
\* documents created during the run, and equal to it when no reconciler
\* failed.
C19_PartialBatch ==
    /\ [][Rejects =>
            /\ store' = store
            /\ \A k \in 1..(ui - 1) : Holds(store, cafes[k])
            /\ zlog[Len(zlog)].wrote = [k \in 1..(ui - 1) |-> cafes[k].kakao_id]
            /\ zlog[Len(zlog)].fetched = Len(cafes)
            /\ result.total_fetched >=
                  Len(cafes) + SumOf(SubSeq(zlog, 1, Len(zlog) - 1),
                                     LAMBDA e : IF e.collected THEN e.fetched ELSE 0)
            /\ result' = [result EXCEPT !.failed_districts = Append(@, CurZone)]]_vars
    /\ [][pc = "zone_sleep" => store' = store /\ zlog' = zlog]_vars
    /\ [](\A k \in 1..Len(zlog) :
             (zlog[k].raised = "reconciler" /\ zlog[k].wrote # <<>>) =>
                 Len(zlog[k].wrote) < zlog[k].fetched)
    /\ [](result.inserted <= SumOf(zlog, LAMBDA e : e.created))
    /\ [](pc = "done" /\ (\A k \in 1..Len(zlog) : zlog[k].raised # "reconciler") =>
             result.inserted = SumOf(zlog, LAMBDA e : e.created))

\* a run has returned: the store rejected the second record of the first zone
\* after creating a document for the first, the second zone created another;
\* the summary counts the three records fetched and one inserted
C19_Witness ==
    /\ pc = "done"
    /\ Len(zlog) = 2
    /\ zlog[1].raised = "reconciler"
    /\ zlog[1].fetched = 2 /\ Len(zlog[1].wrote) = 1 /\ zlog[1].created = 1
    /\ zlog[2].reconciled /\ zlog[2].created = 1
    /\ Len(store) = 2
    /\ result.total_fetched = 3
    /\ result.inserted = 1 /\ result.updated = 0
    /\ result.failed_districts = <<"A">>

\* the zones of the run, reconciled, whose batch held the id
Reporters(id) == {k \in 1..Len(zlog) : zlog[k].reconciled /\ InSeq(id, zlog[k].wrote)}

\* the share of the reconciled zones in total_fetched, id by id
RECURSIVE Reported(_)
Reported(ids) ==
    IF ids = {} THEN 0
    ELSE LET id == CHOOSE x \in ids : TRUE
         IN  Cardinality(Reporters(id)) + Reported(ids \ {id})

\* an id reported by k reconciled zones counts k times in total_fetched, is
\* classified inserted in at most one of them, the first, and updated in the
\* others
PerZoneCounting ==
    /\ \A k \in 1..Len(zlog) :
          zlog[k].collected => zlog[k].fetched = zlog[k].distinct
    /\ \A k \in 1..Len(zlog) :
          zlog[k].reconciled =>
              /\ Len(zlog[k].wrote) = zlog[k].fetched
              /\ zlog[k].created = Len(zlog[k].made)
              /\ zlog[k].modified = zlog[k].fetched - Len(zlog[k].made)
    /\ SumOf(zlog, LAMBDA e : IF e.reconciled THEN e.fetched ELSE 0) =
          Reported(StoredIds(store) \cup Ids)
    /\ result.total_fetched >= Reported(StoredIds(store) \cup Ids)
    /\ \A id \in StoredIds(store) :
          \A k \in Reporters(id) :
              /\ InSeq(id, zlog[k].made) =>
                    \A j \in 1..(k - 1) : ~InSeq(id, zlog[j].wrote)
              /\ k # Min(Reporters(id)) => ~InSeq(id, zlog[k].made)
    /\ pc = "upsert" =>
          /\ inserted = Len(zlog[Len(zlog)].made)
          /\ updated = Len(zlog[Len(zlog)].wrote) - Len(zlog[Len(zlog)].made)

\* C20, as claimed: total_fetched is the sum over the zones of the number of
\* distinct ids in the pages accumulated for the zone; an id reported by k
\* reconciled zones counts k times, is classified inserted at most once, in the
\* first of them, and updated in the others.
C20_AsClaimed ==
    /\ pc = "done" => result.total_fetched = SumOf(zlog, LAMBDA e : e.distinct)
    /\ PerZoneCounting

\* C20, amended: total_fetched is the sum, over the zones whose collector
\* returned a batch, of the number of distinct ids in the pages accumulated
\* for the zone; an id reported by k reconciled zones counts k times, is
\* classified inserted at most once, in the first of them and only when it had
\* no document, so not when it was stored before the run, and updated in the
\* others.
C20_CrossZone ==
    /\ [](result.total_fetched =
             SumOf(zlog, LAMBDA e : IF e.collected THEN e.distinct ELSE 0))
    /\ [](PerZoneCounting)
    /\ [][(Writes /\ inserted' = inserted + 1) =>
             cafes[ui].kakao_id \notin StoredIds(store)]_vars
    /\ [][StoredIds(store) \subseteq StoredIds(store')]_vars

\* a run over three zones has returned; every zone reported the same id: the
\* first created its document, the second and the third rewrote it
C20_Witness ==
    /\ pc = "done"
    /\ Len(catalog) = 3
    /\ \E id \in Ids :
          /\ Reporters(id) = {1, 2, 3}
          /\ zlog[1].made = <<id>>
          /\ zlog[2].made = <<>> /\ zlog[3].made = <<>>
    /\ result.total_fetched = 3
    /\ result.inserted = 1 /\ result.updated = 2
    /\ Len(store) = 1

====
